---- MODULE Spec2Model ----
(***************************************************************************)
(* AKTimeLine.c: a sample-accurate playback timeline shared by one control *)
(* thread and one render thread.                                           *)
(*                                                                         *)
(* Sample times (Float64 in the source) and host times (UInt64 ticks) are  *)
(* integers here.  The ratio of host ticks to samples is the rational      *)
(* TickNum / TickDen, so that every conversion between the two domains     *)
(* rounds as the source's round() does.  A NaN sample time can only arise  *)
(* inside the loop splitting of AKTimeLineRender and is carried there as a *)
(* separate flag.                                                          *)
(***************************************************************************)
EXTENDS Integers, Sequences, FiniteSets, TLC

\* ------------------------------------------------------------------ bounds

\* Host ticks per sample = TickNum / TickDen (sampleRate * ticksToSeconds()).
TickNum == 3
TickDen == 2
\* Host time of the device clock at device sample 0.
HostEpoch == 12
\* Device sample time of the first render call.
DevStart == 1
\* The device clock stops after this many samples past DevStart.
MaxDev == 4
\* Frame count of a render call.
MaxFrames == 2
\* Control-thread API calls in one behaviour of Spec.
MaxOps == 3
\* Largest timeline position passed to a seek.
MaxPos == 1
\* Largest loop start and loop duration passed to setLoop.
MaxLoopStart == 1
MaxLoopDur == 2
\* Control-side timestamps lie within this many samples of DevStart.
MaxTime == 2
\* commands of a burst sent while the render thread is slow to drain
MaxBurst == 35
\* A render timestamp's host time is up to MaxDrift ticks late.
MaxDrift == 1
\* Render calls counted after the control thread's last call.
MaxQuiet == 2
\* Render calls made while a burst of commands is sent.
MaxQueueCalls == 3
\* The clock conversions are tried on sample times 0..MaxProbeSample, host
\* times 0..MaxProbeHost and offsets -MaxProbeOffset..MaxProbeOffset.
MaxProbeSample == 2
MaxProbeHost == 4
MaxProbeOffset == 3

\* ------------------------------------------------- program constants

kAudioTimeStampSampleTimeValid == 1
kAudioTimeStampHostTimeValid == 2
\* TPCircularBufferInit(&messageQueue, sizeof(AKTimeLineMessage) * 32)
QueueCapacity == 32

\* ------------------------------------------------------------ timestamps

Stamp(s, h, f) == [mSampleTime |-> s, mHostTime |-> h, mFlags |-> f]

AudioTimeZero == Stamp(0, 0, 0)

SampleTimeValid(timeStamp) ==
    (timeStamp.mFlags \div kAudioTimeStampSampleTimeValid) % 2 = 1

HostTimeValid(timeStamp) ==
    (timeStamp.mFlags \div kAudioTimeStampHostTimeValid) % 2 = 1

SampleAndHostTimeValid(timeStamp) ==
    SampleTimeValid(timeStamp) /\ HostTimeValid(timeStamp)

AudioTimeStampWithSampleHost(sampleTime, hostTime) ==
    Stamp(sampleTime, hostTime,
          kAudioTimeStampSampleTimeValid + kAudioTimeStampHostTimeValid)

\* C round() of the rational n / d, d > 0: halfway cases away from zero.
Round(n, d) ==
    IF n >= 0 THEN (2 * n + d) \div (2 * d)
              ELSE -((2 * (-n) + d) \div (2 * d))

\* round(samples / sampleRate / ticksToSeconds())
SamplesToTicks(samples) == Round(samples * TickNum, TickDen)

\* round(ticks * ticksToSeconds() * sampleRate)
TicksToSamples(ticks) == Round(ticks * TickDen, TickNum)

safeSubtract(a, b) == IF a >= b THEN a - b ELSE -(b - a)

\* The host time is moved whatever it is, below 0 too.
OffsetWithoutClamp(timeStamp, samples) ==
    LET t1 == IF SampleTimeValid(timeStamp)
              THEN [timeStamp EXCEPT !.mSampleTime = @ + samples]
              ELSE timeStamp
    IN  IF HostTimeValid(t1)
        THEN [t1 EXCEPT !.mHostTime = @ + SamplesToTicks(samples)]
        ELSE t1

\* TimeStampOffset (lines 244-258).
TimeStampOffset(timeStamp, samples) ==
    LET t1 == IF SampleTimeValid(timeStamp)
              THEN [timeStamp EXCEPT !.mSampleTime = @ + samples]
              ELSE timeStamp
        offset == SamplesToTicks(samples)
    IN  IF HostTimeValid(t1)
        THEN IF offset < 0 /\ t1.mHostTime < -offset
             THEN t1
             ELSE [t1 EXCEPT !.mHostTime = @ + offset]
        ELSE t1

\* The assertion of extrapolateTime (line 284): timeStamp has a valid
\* domain and anchorTime has both.
ExtrapolateAssertion(timeStamp, anchorTime_) ==
    /\ SampleTimeValid(timeStamp) \/ HostTimeValid(timeStamp)
    /\ SampleAndHostTimeValid(anchorTime_)

\* What a call leaves behind when its assertion fails: no timestamp, the
\* process is aborted.  The flags mark it whatever is done with it later.
AssertionFailed == [mSampleTime |-> 0, mHostTime |-> 0, mFlags |-> -1]

\* extrapolateTime (lines 282-297).
extrapolateTime(timeStamp, anchorTime_) ==
    IF ~ExtrapolateAssertion(timeStamp, anchorTime_)
    THEN AssertionFailed
    ELSE IF SampleTimeValid(timeStamp)
    THEN [timeStamp EXCEPT
            !.mHostTime = anchorTime_.mHostTime
                + SamplesToTicks(timeStamp.mSampleTime - anchorTime_.mSampleTime),
            !.mFlags = IF HostTimeValid(timeStamp) THEN @
                       ELSE @ + kAudioTimeStampHostTimeValid]
    ELSE [timeStamp EXCEPT
            !.mSampleTime = anchorTime_.mSampleTime
                + TicksToSamples(safeSubtract(timeStamp.mHostTime,
                                              anchorTime_.mHostTime)),
            !.mFlags = @ + kAudioTimeStampSampleTimeValid]

\* C fmod(x, d) for d > 0: the result has the sign of x.
FMod(x, d) == IF x >= 0 THEN x % d ELSE -((-x) % d)

Max(a, b) == IF a >= b THEN a ELSE b
Min(a, b) == IF a <= b THEN a ELSE b

\* --------------------------------------------------------- Float64 values

\* A Float64 result that may be NaN.
Num(v) == [nan |-> FALSE, v |-> v]
NaN == [nan |-> TRUE, v |-> 0]

\* fmod(x, d): NaN for d = 0, otherwise the sign of d is ignored.
FModF(x, d) ==
    IF d = 0 THEN NaN ELSE Num(FMod(x, IF d < 0 THEN -d ELSE d))

\* Conversion of a Float64 to SInt64.  The conversion of NaN is undefined;
\* a saturating conversion instruction yields 0, and that is the outcome
\* followed here.
ToSInt64(x) == IF x.nan THEN 0 ELSE x.v

\* ----------------------------------------------------------------- state

VARIABLES
    \* AKTimeline, control side
    baseTime, waitStart, loopStart, loopEnd, idleTime,
    \* AKTimeline, render side
    _baseTime, _waitStart, _loopStart, _loopEnd,
    anchorTime, lastRenderTime, lastRenderFrames,
    \* the message ring and its lock
    messageQueue, underflow, messageQueueLock,
    \* control thread: position, the message being sent, calls made so far
    cpc, message, nOps,
    \* render thread: position, arguments of the call in progress
    rpc, inTimeStamp, inNumberFrames,
    \* the device clock: sample time of the next render call
    devSample,
    \* what the client callback was given during the latest render call
    calls,
    \* history: the last step taken, the last message handed to the ring,
    \* the last seek, the call that last chose the desired loop bounds
    op, lastSent, seek, loopBy,
    \* history: render calls in a row that skipped the drain
    skips,
    \* history: the newest message that was waiting in the ring when the
    \* first call of such a row began
    stale,
    \* history: render calls (at most MaxQuiet are counted) that took the
    \* lock since the control thread's last call returned, the timeline idle
    quiet,
    \* a workbench for the clock conversions: arguments and results
    probe

desired == <<baseTime, waitStart, loopStart, loopEnd, idleTime>>
shadow == <<_baseTime, _waitStart, _loopStart, _loopEnd>>
renderBook == <<anchorTime, lastRenderTime, lastRenderFrames>>
ring == <<messageQueue, underflow, messageQueueLock>>
ctl == <<cpc, message, nOps>>
rnd == <<rpc, inTimeStamp, inNumberFrames, devSample, calls>>
hist == <<op, lastSent, seek, loopBy, skips, stale, quiet>>

vars == <<desired, shadow, renderBook, ring, ctl, rnd, hist, probe>>

Message(ls, le, bt, ws) ==
    [loopStart |-> ls, loopEnd |-> le, baseTime |-> bt, waitStart |-> ws]

NoMessage == Message(0, 0, AudioTimeZero, AudioTimeZero)

NoSeek == [valid |-> FALSE, p |-> 0, t |-> AudioTimeZero]

NoProbe == [stage |-> 0, t |-> AudioTimeZero, n |-> 0,
            once |-> AudioTimeZero, twice |-> AudioTimeZero]

\* AKTimeLineInit: memset 0, empty ring, unlocked mutex.
InitTimeline ==
    /\ baseTime = AudioTimeZero /\ waitStart = AudioTimeZero
    /\ loopStart = 0 /\ loopEnd = 0 /\ idleTime = Num(0)
    /\ _baseTime = AudioTimeZero /\ _waitStart = AudioTimeZero
    /\ _loopStart = 0 /\ _loopEnd = 0
    /\ anchorTime = AudioTimeZero /\ lastRenderTime = AudioTimeZero
    /\ lastRenderFrames = 0
    /\ messageQueue = <<>> /\ underflow = 0 /\ messageQueueLock = "free"
    /\ cpc = "idle" /\ message = NoMessage /\ nOps = 0
    /\ rpc = "idle" /\ inTimeStamp = AudioTimeZero /\ inNumberFrames = 0
    /\ devSample = DevStart
    /\ calls = <<>>
    /\ op = "init" /\ lastSent = NoMessage /\ seek = NoSeek /\ loopBy = "init"
    /\ skips = 0 /\ stale = NoMessage /\ quiet = 0

Init == InitTimeline /\ probe = NoProbe

\* ------------------------------------------------------- the message ring
\* TPCircularBufferUnit*: a ring of QueueCapacity messages.  messageQueue
\* holds the unread messages, oldest first.  underflow counts the consumes
\* made on an empty ring whose effect on the fill count is still pending.

FillCount == Len(messageQueue) - underflow

\* TPCircularBufferUnitHead: a write slot, or NULL when the ring is full.
TPCircularBufferUnitHead == FillCount < QueueCapacity

\* TPCircularBufferUnitTail: the oldest unread message, or NULL.
TPCircularBufferUnitTail == messageQueue # <<>>

\* TPCircularBufferUnitProduce of the message written to the head slot.
TPCircularBufferUnitProduce(m) ==
    IF underflow > 0
    THEN /\ underflow' = underflow - 1
         /\ messageQueue' = messageQueue
    ELSE /\ underflow' = underflow
         /\ messageQueue' = Append(messageQueue, m)

\* TPCircularBufferUnitConsume.  On an empty ring the ring's contract is
\* broken: either nothing happens (clamped = TRUE) or the read position and
\* fill count move past the write position.
TPCircularBufferUnitConsume(clamped) ==
    IF messageQueue # <<>>
    THEN /\ messageQueue' = Tail(messageQueue)
         /\ underflow' = underflow
    ELSE /\ messageQueue' = messageQueue
         /\ underflow' = IF clamped THEN underflow ELSE underflow + 1

\* ------------------------------------------------ AKTimelineSendMessage

\* head = TPCircularBufferUnitHead(...); if (!head) ...
SendHead ==
    /\ cpc = "head"
    /\ cpc' = IF TPCircularBufferUnitHead THEN "write" ELSE "lock"
    /\ op' = "sendHead"
    /\ UNCHANGED <<desired, shadow, renderBook, ring, message, nOps, rnd,
                   lastSent, seek, loopBy, skips, stale, quiet, probe>>

\* pthread_mutex_lock(&timeLine->messageQueueLock)
SendLock ==
    /\ cpc = "lock"
    /\ messageQueueLock = "free"
    /\ messageQueueLock' = "control"
    /\ cpc' = "evict"
    /\ op' = "sendLock"
    /\ UNCHANGED <<desired, shadow, renderBook, messageQueue, underflow,
                   message, nOps, rnd, lastSent, seek, loopBy,
                   skips, stale, quiet, probe>>

\* One iteration of while (!head) { Consume; head = Head; }
SendEvict(clamped) ==
    /\ cpc = "evict"
    /\ TPCircularBufferUnitConsume(clamped)
    /\ cpc' = IF Len(messageQueue') - underflow' < QueueCapacity
              THEN "unlock" ELSE "evict"
    /\ op' = IF messageQueue = <<>> THEN "evictEmpty" ELSE "evict"
    /\ UNCHANGED <<desired, shadow, renderBook, messageQueueLock,
                   message, nOps, rnd, lastSent, seek, loopBy,
                   skips, stale, quiet, probe>>

\* pthread_mutex_unlock(&timeLine->messageQueueLock)
SendUnlock ==
    /\ cpc = "unlock"
    /\ messageQueueLock' = "free"
    /\ cpc' = "write"
    /\ op' = "sendUnlock"
    /\ UNCHANGED <<desired, shadow, renderBook, messageQueue, underflow,
                   message, nOps, rnd, lastSent, seek, loopBy,
                   skips, stale, quiet, probe>>

\* *head = message; TPCircularBufferUnitProduce(...)
SendProduce ==
    /\ cpc = "write"
    /\ TPCircularBufferUnitProduce(message)
    /\ cpc' = "idle"
    /\ lastSent' = message
    /\ op' = "sendProduce"
    /\ UNCHANGED <<desired, shadow, renderBook, messageQueueLock,
                   message, nOps, rnd, seek, loopBy,
                   skips, stale, quiet, probe>>

\* ----------------------------------------------------- AKTimeLineRender

\* The device's timestamp for a buffer starting at device sample s.
DeviceStamp(s) ==
    AudioTimeStampWithSampleHost(s, HostEpoch + SamplesToTicks(s))

\* UInt32 loopDur = _loopEnd - _loopStart.  The conversion of a negative
\* Float64 to UInt32 is undefined: a saturating conversion gives 0, a
\* truncating one a value near 2^32 (huge), above every sample distance.
LoopDur(ls, le, fcvt) ==
    IF le - ls >= 0
    THEN [huge |-> FALSE, v |-> le - ls]
    ELSE [huge |-> fcvt = "truncate", v |-> 0]

\* A position is wrapped only once it has passed loopEnd.
LoopWrapsPast(unlooped, le) == unlooped > le

\* Line 229: a position at or past loopEnd is wrapped into the loop.
LoopWraps(unlooped, le) == unlooped >= le

\* Lines 228-240: the loop-splitting loop, one callback per iteration, for
\* the loop bounds ls = _loopStart and le = _loopEnd.
\* playerTime is the running timestamp, nan says its sample time is NaN.
\* The (int) conversion of NaN is undefined: 0 when saturating, INT_MIN when
\* truncating; a negative int compares above every UInt32 frame count.
\* An iteration of 0 frames changes nothing, so the loop never ends (spin).
RECURSIVE LoopSplit(_, _, _, _, _, _, _, _)
LoopSplit(playerTime, nan, framesToRender, unlooped, ls, le, fcvt, acc) ==
    IF framesToRender = 0
    THEN [calls |-> acc, spin |-> FALSE]
    ELSE
    LET wrap == LoopWraps(unlooped, le)
        dur == LoopDur(ls, le, fcvt)
        wrapped == IF dur.huge THEN Num(ls + (unlooped - ls))
                   ELSE LET m == FModF(unlooped - ls, dur.v)
                        IN  IF m.nan THEN NaN ELSE Num(ls + m.v)
        pos == IF wrap THEN wrapped
               ELSE [nan |-> nan, v |-> playerTime.mSampleTime]
        raw == le - pos.v
        frames == IF pos.nan
                  THEN (IF fcvt = "saturate" THEN 0 ELSE framesToRender)
                  ELSE IF raw < 0 \/ raw > framesToRender
                       THEN framesToRender ELSE raw
        pt == [playerTime EXCEPT !.mSampleTime = pos.v]
        call == [mSampleTime |-> pos.v, nan |-> pos.nan,
                 mHostTime |-> pt.mHostTime, frames |-> frames]
    IN  IF frames = 0
        THEN [calls |-> Append(acc, call), spin |-> TRUE]
        ELSE LoopSplit(TimeStampOffset(pt, frames), pos.nan,
                       framesToRender - frames, unlooped + frames, ls, le,
                       fcvt, Append(acc, call))

\* Every render call stores its timestamp as the anchor.
LatchEveryCall == inTimeStamp

\* Lines 176-178: the first render call latches its timestamp as the anchor.
LatchAnchor ==
    IF ~SampleAndHostTimeValid(anchorTime) THEN inTimeStamp ELSE anchorTime

\* Lines 176-241 for the call (inTimeStamp, inNumberFrames): the new anchor,
\* the resolved _baseTime and _waitStart, and the callback invocations.
RenderOutcome(fcvt) ==
    LET anchor == LatchAnchor
        idle == ~SampleTimeValid(_baseTime) /\ ~HostTimeValid(_baseTime)
        base == IF ~idle /\ ~SampleAndHostTimeValid(_baseTime)
                THEN extrapolateTime(_baseTime, inTimeStamp)
                ELSE _baseTime
        wait == IF ~SampleTimeValid(_waitStart) /\ HostTimeValid(_waitStart)
                THEN extrapolateTime(_waitStart, anchor)
                ELSE _waitStart
        waitStart_ == IF SampleTimeValid(wait)
                      THEN wait.mSampleTime - base.mSampleTime ELSE 0
        startSample == IF waitStart_ > 0 THEN waitStart_ ELSE 0
        playerTime == AudioTimeStampWithSampleHost(
                          inTimeStamp.mSampleTime - base.mSampleTime,
                          inTimeStamp.mHostTime)
        samplesBelowZero == IF playerTime.mSampleTime < startSample
                            THEN startSample - playerTime.mSampleTime ELSE 0
        framesToRender == inNumberFrames - samplesBelowZero
        playerTime2 == IF samplesBelowZero # 0
                       THEN TimeStampOffset(playerTime, samplesBelowZero)
                       ELSE playerTime
        none == [calls |-> <<>>, spin |-> FALSE]
        out == IF samplesBelowZero # 0 /\ samplesBelowZero >= inNumberFrames
               THEN none
               ELSE IF _loopEnd = 0
               THEN [calls |-> <<[mSampleTime |-> playerTime2.mSampleTime,
                                  nan |-> FALSE,
                                  mHostTime |-> playerTime2.mHostTime,
                                  frames |-> framesToRender]>>,
                     spin |-> FALSE]
               ELSE LoopSplit(playerTime2, FALSE, framesToRender,
                              playerTime2.mSampleTime, _loopStart, _loopEnd,
                              fcvt, <<>>)
    IN  IF idle
        THEN [anchor |-> anchor, base |-> _baseTime, wait |-> _waitStart,
              calls |-> <<>>, spin |-> FALSE, startSample |-> 0]
        ELSE [anchor |-> anchor, base |-> base, wait |-> wait,
              calls |-> out.calls, spin |-> out.spin,
              startSample |-> startSample]

\* The driver calls AKTimeLineRender with the timestamp ts and n frames;
\* pthread_mutex_trylock (line 164).
RenderCall(n, limit, ts) ==
    /\ rpc = "idle"
    /\ devSample + n <= DevStart + limit
    /\ inTimeStamp' = ts
    /\ inNumberFrames' = n
    /\ devSample' = devSample + n
    /\ IF messageQueueLock = "free"
       THEN messageQueueLock' = "render" /\ rpc' = "drain"
       ELSE messageQueueLock' = messageQueueLock /\ rpc' = "post"
    /\ calls' = <<>>
    /\ op' = IF messageQueueLock = "free" THEN "renderLock" ELSE "renderSkip"
    /\ skips' = IF messageQueueLock = "free" THEN 0 ELSE skips + 1
    /\ stale' = IF messageQueueLock = "free" THEN NoMessage
                ELSE IF skips = 0 /\ messageQueue # <<>>
                     THEN messageQueue[Len(messageQueue)]
                     ELSE stale
    /\ quiet' = IF /\ messageQueueLock = "free" /\ cpc = "idle"
                   /\ ~(SampleTimeValid(baseTime) \/ HostTimeValid(baseTime))
                   /\ quiet < MaxQuiet
                THEN quiet + 1 ELSE quiet
    /\ UNCHANGED <<desired, shadow, renderBook, messageQueue, underflow, ctl,
                   lastSent, seek, loopBy, probe>>

\* A render call whose timestamp lies on the device clock's nominal line.
RenderBegin(n, limit) == RenderCall(n, limit, DeviceStamp(devSample))

\* One iteration of while (message) (lines 166-173).
RenderDrainPop ==
    /\ rpc = "drain"
    /\ TPCircularBufferUnitTail
    /\ _baseTime' = Head(messageQueue).baseTime
    /\ _loopStart' = Head(messageQueue).loopStart
    /\ _loopEnd' = Head(messageQueue).loopEnd
    /\ _waitStart' = Head(messageQueue).waitStart
    /\ TPCircularBufferUnitConsume(TRUE)
    /\ op' = "renderPop"
    /\ UNCHANGED <<desired, renderBook, messageQueueLock, ctl, rnd,
                   lastSent, seek, loopBy, skips, stale, quiet, probe>>

\* message == NULL: pthread_mutex_unlock (line 174).
RenderDrainDone ==
    /\ rpc = "drain"
    /\ ~TPCircularBufferUnitTail
    /\ messageQueueLock' = "free"
    /\ rpc' = "post"
    /\ op' = "renderUnlock"
    /\ UNCHANGED <<desired, shadow, renderBook, messageQueue, underflow, ctl,
                   inTimeStamp, inNumberFrames, devSample, calls,
                   lastSent, seek, loopBy, skips, stale, quiet, probe>>

\* Lines 176-241.
RenderBody(fcvt) ==
    /\ rpc = "post"
    /\ LET r == RenderOutcome(fcvt)
       IN  /\ anchorTime' = r.anchor
           /\ lastRenderTime' = inTimeStamp
           /\ lastRenderFrames' = inNumberFrames
           /\ _baseTime' = r.base
           /\ _waitStart' = r.wait
           /\ calls' = r.calls
           /\ rpc' = IF r.spin THEN "spin" ELSE "idle"
    /\ op' = "renderBody"
    /\ UNCHANGED <<desired, _loopStart, _loopEnd, ring, ctl,
                   inTimeStamp, inNumberFrames, devSample,
                   lastSent, seek, loopBy, skips, stale, quiet, probe>>

\* ---------------------------------------------------------- control API

\* The timeline counts as started whatever its base time is.
StartedWhateverBase == TRUE

\* AKTimelineIsStarted (lines 122-124).
AKTimelineIsStarted == SampleTimeValid(baseTime) \/ HostTimeValid(baseTime)

\* AudioTimeNow(): mach_absolute_time() read at the device clock's current
\* position.
AudioTimeNow ==
    Stamp(0, HostEpoch + SamplesToTicks(devSample), kAudioTimeStampHostTimeValid)

\* Timestamps a caller may pass: in the sample domain or in the host domain.
CtlStamps ==
    { Stamp(DevStart + k, 0, kAudioTimeStampSampleTimeValid) : k \in {0, MaxTime} }
    \cup { Stamp(0, HostEpoch + SamplesToTicks(DevStart) + MaxTime,
                 kAudioTimeStampHostTimeValid) }

\* AKTimelineSyncronize: the message is a copy of the desired state; the
\* caller goes on into AKTimelineSendMessage.
AKTimelineSyncronize ==
    /\ message' = Message(loopStart', loopEnd', baseTime', waitStart')
    /\ cpc' = "head"

\* A state setter that also stores the loop start on the render side.
SetStateThroughShadow(sampleTime, loopSampleStart, loopSampleEnd, audioTime) ==
    LET t1 == TimeStampOffset(audioTime, -sampleTime)
        t2 == IF SampleAndHostTimeValid(anchorTime)
              THEN extrapolateTime(t1, anchorTime) ELSE t1
    IN  /\ baseTime' = t2
        /\ loopStart' = loopSampleStart
        /\ loopEnd' = loopSampleEnd
        /\ _loopStart' = loopSampleStart
        /\ UNCHANGED <<_baseTime, _waitStart, _loopEnd>>
        /\ message' = Message(loopStart', loopEnd', baseTime', waitStart')
        /\ cpc' = "head"

\* AKTimelineSetState (lines 125-135); the caller has set waitStart'.
AKTimelineSetState(sampleTime, loopSampleStart, loopSampleEnd, audioTime) ==
    LET t1 == TimeStampOffset(audioTime, -sampleTime)
        t2 == IF SampleAndHostTimeValid(anchorTime)
              THEN extrapolateTime(t1, anchorTime) ELSE t1
    IN  /\ baseTime' = t2
        /\ loopStart' = loopSampleStart
        /\ loopEnd' = loopSampleEnd
        /\ UNCHANGED shadow
        /\ AKTimelineSyncronize

\* AKTimelineStartAtTime (lines 58-67).
AKTimelineStartAtTime(audioTime) ==
    IF AKTimelineIsStarted
    THEN /\ cpc' = "idle"
         /\ UNCHANGED <<desired, shadow, message, seek>>
    ELSE LET t == IF SampleAndHostTimeValid(anchorTime)
                  THEN extrapolateTime(audioTime, anchorTime)
                  ELSE audioTime
         IN  /\ waitStart' = t
             /\ AKTimelineSetState(ToSInt64(idleTime), loopStart, loopEnd, t)
             /\ seek' = NoSeek
             /\ UNCHANGED idleTime

\* AKTimelineSetLoop (lines 68-73); the source asserts start, duration >= 0.
AKTimelineSetLoop(start, duration) ==
    /\ loopStart' = start
    /\ loopEnd' = start + duration
    /\ UNCHANGED <<baseTime, waitStart, idleTime, shadow>>
    /\ AKTimelineSyncronize

\* AKTimelineTimeAtTime (lines 74-93): the base time it leaves behind ...
TimeAtTimeBase ==
    IF AKTimelineIsStarted /\ SampleAndHostTimeValid(anchorTime)
       /\ ~SampleTimeValid(baseTime)
    THEN extrapolateTime(baseTime, anchorTime)
    ELSE baseTime

\* ... the timestamp it reads the position at (lines 85-87) ...
TimeAtTimeStamp(audioTime) ==
    IF ~SampleTimeValid(audioTime)
    THEN extrapolateTime(audioTime, anchorTime) ELSE audioTime

\* ... and the value it returns.
AKTimelineTimeAtTime(audioTime) ==
    IF ~AKTimelineIsStarted \/ ~SampleAndHostTimeValid(anchorTime)
    THEN idleTime
    ELSE LET t == TimeAtTimeStamp(audioTime)
             sampleTimeTotal == t.mSampleTime - _baseTime.mSampleTime
         IN  IF _loopEnd = 0 \/ sampleTimeTotal <= loopEnd
             THEN Num(t.mSampleTime - _baseTime.mSampleTime)
             ELSE LET m == FModF(sampleTimeTotal - _loopStart,
                                 _loopEnd - loopStart)
                  IN  IF m.nan THEN NaN ELSE Num(_loopStart + m.v)

\* A stop that captures the position but leaves the base time valid.
StopKeepsBase(now) ==
    /\ idleTime' = AKTimelineTimeAtTime(now)
    /\ waitStart' = AudioTimeZero
    /\ UNCHANGED <<baseTime, loopStart, loopEnd, shadow>>
    /\ message' = Message(loopStart', loopEnd', baseTime', waitStart')
    /\ cpc' = "head"

\* AKTimelineStop (lines 97-102).
AKTimelineStop(now) ==
    /\ idleTime' = AKTimelineTimeAtTime(now)
    /\ baseTime' = AudioTimeZero
    /\ waitStart' = AudioTimeZero
    /\ UNCHANGED <<loopStart, loopEnd, shadow>>
    /\ AKTimelineSyncronize

\* AKTimelineSetTimeAtTime (lines 112-115).  seek remembers the call when it
\* is made on a started timeline whose anchor is resolved.
AKTimelineSetTimeAtTime(sampleTime, audioTime) ==
    /\ waitStart' = AudioTimeZero
    /\ AKTimelineSetState(sampleTime, loopStart, loopEnd, audioTime)
    /\ seek' = [valid |-> AKTimelineIsStarted
                          /\ SampleAndHostTimeValid(anchorTime),
                p |-> sampleTime, t |-> audioTime]
    /\ UNCHANGED idleTime

\* AKTimelineSetTime (lines 116-121).
AKTimelineSetTime(sampleTime, now) ==
    IF AKTimelineIsStarted
    THEN AKTimelineSetTimeAtTime(sampleTime, now)
    ELSE /\ idleTime' = Num(sampleTime)
         /\ seek' = NoSeek
         /\ UNCHANGED <<baseTime, waitStart, loopStart, loopEnd, shadow,
                        cpc, message>>

\* AKTimelineSetRenderState (lines 136-147).
AKTimelineSetRenderState(sampleTime, loopStart_, loopEnd_, audioTime) ==
    LET t1 == TimeStampOffset(audioTime, -sampleTime)
        t2 == IF SampleAndHostTimeValid(anchorTime)
              THEN extrapolateTime(t1, anchorTime) ELSE t1
    IN  /\ baseTime' = t2 /\ _baseTime' = t2
        /\ loopStart' = loopStart_ /\ _loopStart' = loopStart_
        /\ loopEnd' = loopEnd_ /\ _loopEnd' = loopEnd_
        /\ waitStart' = AudioTimeZero /\ _waitStart' = AudioTimeZero
        /\ UNCHANGED <<idleTime, cpc, message>>

\* The control thread is between two API calls and may make another one.
CtlIdle == cpc = "idle" /\ nOps < MaxOps

\* What no control-thread call writes.
CtlCommon ==
    /\ quiet' = 0
    /\ UNCHANGED <<renderBook, ring, rnd, lastSent, skips, stale, probe>>

CtlStartAtTime(audioTime) ==
    /\ CtlIdle
    /\ nOps' = nOps + 1
    /\ AKTimelineStartAtTime(audioTime)
    /\ op' = "startAtTime"
    /\ UNCHANGED loopBy
    /\ CtlCommon

\* AKTimelineStart is called and begins to poll lastRenderFrames.
CtlStart ==
    /\ CtlIdle
    /\ nOps' = nOps + 1
    /\ cpc' = "poll"
    /\ op' = "start"
    /\ UNCHANGED <<desired, shadow, message, seek, loopBy>>
    /\ CtlCommon

\* The poll sees lastRenderFrames != 0 (lines 52-56).
CtlStartPoll ==
    /\ cpc = "poll"
    /\ lastRenderFrames # 0
    /\ AKTimelineStartAtTime(TimeStampOffset(lastRenderTime, lastRenderFrames))
    /\ op' = "startPoll"
    /\ UNCHANGED <<nOps, loopBy>>
    /\ CtlCommon

CtlSetLoop(start, duration) ==
    /\ CtlIdle
    /\ nOps' = nOps + 1
    /\ AKTimelineSetLoop(start, duration)
    /\ op' = "setLoop"
    /\ loopBy' = IF AKTimelineIsStarted /\ SampleAndHostTimeValid(anchorTime)
                 THEN "setLoop" ELSE "setLoopEarly"
    /\ UNCHANGED seek
    /\ CtlCommon

CtlTimeAtTime(audioTime) ==
    /\ CtlIdle
    /\ nOps' = nOps + 1
    /\ baseTime' = TimeAtTimeBase
    /\ op' = "timeAtTime"
    /\ UNCHANGED <<waitStart, loopStart, loopEnd, idleTime, shadow,
                   cpc, message, seek, loopBy>>
    /\ CtlCommon

CtlStop(now) ==
    /\ CtlIdle
    /\ nOps' = nOps + 1
    /\ AKTimelineStop(now)
    /\ op' = "stop"
    /\ seek' = NoSeek
    /\ UNCHANGED loopBy
    /\ CtlCommon

CtlSetTimeAtTime(sampleTime, audioTime) ==
    /\ CtlIdle
    /\ nOps' = nOps + 1
    /\ AKTimelineSetTimeAtTime(sampleTime, audioTime)
    /\ op' = "setTimeAtTime"
    /\ UNCHANGED loopBy
    /\ CtlCommon

CtlSetTime(sampleTime, now) ==
    /\ CtlIdle
    /\ nOps' = nOps + 1
    /\ AKTimelineSetTime(sampleTime, now)
    /\ op' = "setTime"
    /\ UNCHANGED loopBy
    /\ CtlCommon

CtlSetState(sampleTime, loopSampleStart, loopSampleEnd, audioTime) ==
    /\ CtlIdle
    /\ nOps' = nOps + 1
    /\ UNCHANGED <<waitStart, idleTime>>
    /\ AKTimelineSetState(sampleTime, loopSampleStart, loopSampleEnd, audioTime)
    /\ op' = "setState"
    /\ seek' = NoSeek
    /\ loopBy' = "setState"
    /\ CtlCommon

CtlSetRenderState(sampleTime, loopStart_, loopEnd_, audioTime) ==
    /\ CtlIdle
    /\ nOps' = nOps + 1
    /\ AKTimelineSetRenderState(sampleTime, loopStart_, loopEnd_, audioTime)
    /\ op' = "setRenderState"
    /\ seek' = NoSeek
    /\ loopBy' = "setRenderState"
    /\ CtlCommon

\* ------------------------------------------------------- specifications

LoopStarts == {0, MaxLoopStart}
LoopDurs == {0, 1, MaxLoopDur}
FrameCounts == {MaxFrames}
FloatConversions == {"saturate", "truncate"}
SampleStamp == Stamp(DevStart, 0, kAudioTimeStampSampleTimeValid)

Control ==
    \/ \E t \in CtlStamps : CtlStartAtTime(t)
    \/ CtlStart
    \/ CtlStartPoll
    \/ \E s \in LoopStarts, d \in LoopDurs : CtlSetLoop(s, d)
    \/ \E t \in CtlStamps \cup {AudioTimeNow} : CtlTimeAtTime(t)
    \/ CtlStop(AudioTimeNow)
    \/ \E t \in CtlStamps : CtlSetTimeAtTime(MaxPos, t)
    \/ CtlSetTime(MaxPos, AudioTimeNow)
    \/ CtlSetState(MaxPos, MaxLoopStart, MaxLoopStart + MaxLoopDur, SampleStamp)
    \/ CtlSetRenderState(MaxPos, MaxLoopStart, MaxLoopStart + MaxLoopDur,
                         SampleStamp)
    \/ SendHead
    \/ SendProduce

Render ==
    \/ \E n \in FrameCounts : RenderBegin(n, MaxDev)
    \/ RenderDrainPop
    \/ RenderDrainDone
    \/ \E fcvt \in FloatConversions : RenderBody(fcvt)

Next == Control \/ Render

Spec == Init /\ [][Next]_vars

\* A burst: the timeline is started to begin with the device's second
\* buffer, the loop is set to an empty one at position 1 and then moved
\* MaxBurst - 2 times, each time to another start, and the timeline is
\* stopped, while the render thread runs whenever the driver lets it.
BurstDuration(k) == IF k = 1 THEN 0 ELSE MaxLoopDur

BurstCommand ==
    /\ cpc = "idle"
    /\ nOps <= MaxBurst
    /\ nOps' = nOps + 1
    /\ IF nOps = 0
       THEN /\ AKTimelineStartAtTime(DeviceStamp(DevStart + MaxFrames))
            /\ op' = "startAtTime"
            /\ UNCHANGED loopBy
       ELSE IF nOps < MaxBurst
       THEN /\ AKTimelineSetLoop(nOps, BurstDuration(nOps))
            /\ op' = "setLoop"
            /\ UNCHANGED <<seek, loopBy>>
       ELSE /\ AKTimelineStop(AudioTimeNow)
            /\ op' = "stop"
            /\ seek' = NoSeek
            /\ UNCHANGED loopBy
    /\ CtlCommon

ControlQueue ==
    \/ BurstCommand
    \/ SendHead
    \/ SendLock
    \/ \E clamped \in BOOLEAN : SendEvict(clamped)
    \/ SendUnlock
    \/ SendProduce

\* The driver makes MaxQueueCalls render calls.
RenderQueue ==
    \/ \E n \in FrameCounts : RenderBegin(n, MaxQueueCalls * MaxFrames)
    \/ RenderDrainPop
    \/ RenderDrainDone
    \/ \E fcvt \in FloatConversions : RenderBody(fcvt)

NextQueue == ControlQueue \/ RenderQueue

SpecQueue == Init /\ [][NextQueue]_vars

\* The driver may call with any frame count, 0 included (inNumberFrames is a
\* UInt32), while the control thread starts and stops the timeline.
AnyFrameCounts == {0, MaxFrames}

ControlStart ==
    \/ CtlStart
    \/ CtlStartPoll
    \/ CtlStop(AudioTimeNow)
    \/ SendHead
    \/ SendProduce

RenderAny ==
    \/ \E n \in AnyFrameCounts : RenderBegin(n, MaxDev)
    \/ RenderDrainPop
    \/ RenderDrainDone
    \/ \E fcvt \in FloatConversions : RenderBody(fcvt)

NextStart == ControlStart \/ RenderAny

SpecStart == Init /\ [][NextStart]_vars

\* The state setters take their loop bounds as they come: the only
\* assertion of AKTimelineSetState and AKTimelineSetRenderState is on the
\* timestamp (lines 126 and 137).
LoopBounds == {0, MaxLoopStart, MaxLoopStart + MaxLoopDur}

ControlState ==
    \/ CtlStartAtTime(SampleStamp)
    \/ \E s \in LoopStarts, d \in LoopDurs : CtlSetLoop(s, d)
    \/ CtlStop(AudioTimeNow)
    \/ CtlSetTime(MaxPos, AudioTimeNow)
    \/ \E s, e \in LoopBounds : CtlSetState(MaxPos, s, e, SampleStamp)
    \/ \E s, e \in LoopBounds : CtlSetRenderState(MaxPos, s, e, SampleStamp)
    \/ SendHead
    \/ SendProduce

NextState == ControlState \/ Render

SpecState == Init /\ [][NextState]_vars

\* TimeStampOffset on its own: a timestamp with both domains valid is moved
\* by n samples and then by -n samples.
ProbeInputs ==
    { [NoProbe EXCEPT !.t = AudioTimeStampWithSampleHost(s, h), !.n = n] :
        s \in 0..MaxProbeSample, h \in 0..MaxProbeHost,
        n \in -MaxProbeOffset..MaxProbeOffset }

InitOffset == InitTimeline /\ probe \in ProbeInputs

ProbeOffset ==
    /\ probe.stage = 0
    /\ probe' = [probe EXCEPT !.stage = 1,
                              !.once = TimeStampOffset(probe.t, probe.n)]
    /\ UNCHANGED <<desired, shadow, renderBook, ring, ctl, rnd, hist>>

ProbeOffsetBack ==
    /\ probe.stage = 1
    /\ probe' = [probe EXCEPT !.stage = 2,
                              !.twice = TimeStampOffset(probe.once, -probe.n)]
    /\ UNCHANGED <<desired, shadow, renderBook, ring, ctl, rnd, hist>>

NextOffset == ProbeOffset \/ ProbeOffsetBack

SpecOffset == InitOffset /\ [][NextOffset]_vars

\* The device's timestamps need not lie on one line: the host time of a
\* render call is late by up to MaxDrift ticks (and never goes back).
DriftStamps(s) ==
    { AudioTimeStampWithSampleHost(s, HostEpoch + SamplesToTicks(s) + j) :
        j \in 0..MaxDrift }

ControlDrift ==
    \/ \E t \in CtlStamps : CtlStartAtTime(t)
    \/ CtlStop(AudioTimeNow)
    \/ SendHead
    \/ SendProduce

RenderDrift ==
    \/ \E n \in FrameCounts, ts \in DriftStamps(devSample) :
          RenderCall(n, MaxDev, ts)
    \/ RenderDrainPop
    \/ RenderDrainDone
    \/ \E fcvt \in FloatConversions : RenderBody(fcvt)

NextDrift == ControlDrift \/ RenderDrift

SpecDrift == Init /\ [][NextDrift]_vars

\* ------------------------------------------------------------- properties

\* Timestamps a query is tried with.
QueryStamps == CtlStamps \cup {AudioTimeNow}

\* A render call has just run lines 176-241.
RenderRan == op = "renderBody"

\* The render thread's base time has a valid domain.
ShadowStarted == SampleTimeValid(_baseTime) \/ HostTimeValid(_baseTime)

\* Player-relative position of the first frame of the latest render call.
PlayerStart == inTimeStamp.mSampleTime - _baseTime.mSampleTime

\* max(waitStartOffset, 0) of the latest render call.
WaitThreshold ==
    IF SampleTimeValid(_waitStart)
    THEN Max(_waitStart.mSampleTime - _baseTime.mSampleTime, 0)
    ELSE 0

\* Frames of the latest render call whose position is below the threshold.
Clipped == Min(inNumberFrames, Max(WaitThreshold - PlayerStart, 0))

RECURSIVE SumFrames(_)
SumFrames(cs) == IF cs = <<>> THEN 0 ELSE Head(cs).frames + SumFrames(Tail(cs))

\* The callback invocations as (position, frames) pairs.
Segments(cs) ==
    [i \in 1..Len(cs) |-> [position |-> cs[i].mSampleTime,
                           frames |-> cs[i].frames]]

NoNaN(cs) == \A i \in 1..Len(cs) : ~cs[i].nan

\* C2: in every render call on a started timeline, looping or not, the frame
\* counts given to the callback add up to the requested frame count minus
\* the frames clipped below max(waitStartOffset, 0); when every frame is
\* clipped the callback is not invoked.
C2_FrameSum ==
    (RenderRan /\ ShadowStarted) =>
        /\ SumFrames(calls) = inNumberFrames - Clipped
        /\ (Clipped = inNumberFrames => calls = <<>>)

\* The state C2 fails in: a loop of duration 0 at a start above 0.
C2_Witness ==
    RenderRan /\ ShadowStarted /\ _loopEnd # 0 /\ _loopEnd = _loopStart
    /\ rpc = "spin"

\* The segments expected for f frames from position p under loop (ls, le).
ClaimedFirst(p, ls, le) ==
    IF p < le THEN p ELSE ls + ((p - ls) % (le - ls))

RECURSIVE ClaimedSegments(_, _, _, _)
ClaimedSegments(pos, f, ls, le) ==
    IF f = 0 THEN <<>>
    ELSE LET len == Min(f, le - pos)
         IN  <<[position |-> pos, frames |-> len]>>
             \o ClaimedSegments(ls, f - len, ls, le)

\* The loop splitting of f frames from position p under loop (ls, le).
SplitOf(p, f, ls, le, fcvt) ==
    LoopSplit(AudioTimeStampWithSampleHost(p, HostEpoch), FALSE, f, p,
              ls, le, fcvt, <<>>)

\* C3: with a loop active (loopEnd > loopStart >= 0) the callback segments
\* of a render call are the first segment at p (wrapped into the loop when
\* p >= loopEnd), every later one at loopStart, each of length
\* min(frames remaining, loopEnd - position); loop (0,100) with 150 frames
\* from 0 gives (0,100), (0,50) and loop (20,50) with 10 frames from 45
\* gives (45,5), (20,5).
C3_LoopSplitting ==
    /\ (RenderRan /\ ShadowStarted /\ _loopEnd > _loopStart /\ _loopStart >= 0)
       => /\ rpc = "idle"
          /\ NoNaN(calls)
          /\ Segments(calls) =
                ClaimedSegments(
                    ClaimedFirst(Max(PlayerStart, WaitThreshold),
                                 _loopStart, _loopEnd),
                    inNumberFrames - Clipped, _loopStart, _loopEnd)
    /\ RenderRan => \A fcvt \in FloatConversions :
          /\ Segments(SplitOf(0, 150, 0, 100, fcvt).calls)
                = <<[position |-> 0, frames |-> 100],
                    [position |-> 0, frames |-> 50]>>
          /\ Segments(SplitOf(45, 10, 20, 50, fcvt).calls)
                = <<[position |-> 45, frames |-> 5],
                    [position |-> 20, frames |-> 5]>>

\* A render call that starts at or past loopEnd and wraps again.
C3_Witness ==
    /\ RenderRan /\ ShadowStarted /\ _loopEnd > _loopStart
    /\ Max(PlayerStart, WaitThreshold) >= _loopEnd
    /\ Len(calls) >= 2

\* The sample time of t and of the desired base time, resolved by the anchor.
Resolved(t) ==
    IF SampleTimeValid(t) THEN t ELSE extrapolateTime(t, anchorTime)

\* Elapsed sample position of t relative to the base time.
Elapsed(t) == Resolved(t).mSampleTime - Resolved(baseTime).mSampleTime

\* C4: after setLoop(s, d), d > 0, on a started timeline with a resolved
\* anchor, every query at an elapsed position e >= s + d returns
\* s + ((e - s) mod d).
C4_LoopedTimeAtTime ==
    (loopBy = "setLoop" /\ loopEnd > loopStart
     /\ AKTimelineIsStarted /\ SampleAndHostTimeValid(anchorTime))
    => \A t \in QueryStamps :
          Elapsed(t) >= loopEnd =>
             AKTimelineTimeAtTime(t)
                = Num(loopStart + ((Elapsed(t) - loopStart)
                                   % (loopEnd - loopStart)))

\* C4 fails even when the render thread has applied the loop: a query at
\* e = s + d exactly is returned unwrapped.
C4_Witness ==
    /\ loopBy = "setLoop" /\ loopEnd > loopStart
    /\ AKTimelineIsStarted /\ SampleAndHostTimeValid(anchorTime)
    /\ messageQueue = <<>> /\ cpc = "idle" /\ rpc = "idle"
    /\ _loopEnd = loopEnd /\ _loopStart = loopStart /\ _baseTime = baseTime
    /\ \E t \in QueryStamps :
          /\ Elapsed(t) = loopEnd
          /\ AKTimelineTimeAtTime(t) = Num(loopEnd)

\* C5: after setTimeAtTime(p, t) on a started timeline with a resolved
\* anchor and no loop, a query at t returns p and a query k samples later
\* returns p + k, whatever the render thread has done in between.
C5_SeekThenQuery ==
    (seek.valid /\ AKTimelineIsStarted /\ SampleAndHostTimeValid(anchorTime)
     /\ loopEnd = 0 /\ _loopEnd = 0)
    => \A k \in 0..MaxTime :
          AKTimelineTimeAtTime(TimeStampOffset(seek.t, k)) = Num(seek.p + k)

\* C5 fails for a sample-domain seek whose message is not drained yet.
C5_Witness ==
    /\ seek.valid /\ AKTimelineIsStarted /\ SampleAndHostTimeValid(anchorTime)
    /\ loopEnd = 0 /\ _loopEnd = 0
    /\ SampleTimeValid(seek.t)
    /\ _baseTime # baseTime
    /\ AKTimelineTimeAtTime(seek.t) # Num(seek.p)

\* C6: when AKTimelineStop returns the timeline is not started and the
\* idle position is what AKTimelineTimeAtTime computed for 'now'; while the
\* timeline stays stopped every query returns the idle position, which only
\* a stop or a seek changes, and only a start, a seek or a state setter
\* starts the timeline again.
C6_StopFreezes ==
    /\ [](~AKTimelineIsStarted =>
            \A t \in QueryStamps : AKTimelineTimeAtTime(t) = idleTime)
    /\ [][op' = "stop" =>
            /\ idleTime' = AKTimelineTimeAtTime(AudioTimeNow)
            /\ ~AKTimelineIsStarted']_vars
    /\ [][op' \notin {"stop", "setTime"} => idleTime' = idleTime]_vars
    /\ [][(~AKTimelineIsStarted
           /\ op' \notin {"startAtTime", "startPoll", "setTimeAtTime",
                          "setState", "setRenderState"})
          => ~AKTimelineIsStarted']_vars

\* A stop that captured a position other than 0, and a query made after it.
C6_Witness ==
    /\ ~AKTimelineIsStarted /\ op = "timeAtTime"
    /\ ~idleTime.nan /\ idleTime.v # 0
    /\ lastSent.baseTime = AudioTimeZero /\ lastSent # NoMessage

\* C7: from the first render call on the anchor is that call's timestamp,
\* whatever is called afterwards; before it the anchor is unset.
C7_AnchorLatchedOnce ==
    IF SampleTimeValid(lastRenderTime)
    THEN anchorTime = DeviceStamp(DevStart)
    ELSE anchorTime = AudioTimeZero

\* A later render call with another timestamp has run, after control calls.
C7_Witness ==
    /\ RenderRan /\ lastRenderTime # anchorTime
    /\ SampleAndHostTimeValid(anchorTime) /\ nOps > 0

ControlSteps ==
    {"startAtTime", "start", "startPoll", "setLoop", "timeAtTime", "stop",
     "setTimeAtTime", "setTime", "setState",
     "sendHead", "sendLock", "evict", "evictEmpty", "sendUnlock",
     "sendProduce"}

RenderSteps == {"renderLock", "renderSkip", "renderPop", "renderUnlock",
                "renderBody"}

\* C8: no control-thread step other than AKTimelineSetRenderState writes
\* _baseTime, _loopStart, _loopEnd or _waitStart, and no step of
\* AKTimeLineRender writes baseTime, loopStart, loopEnd, waitStart or
\* idleTime.
C8_SingleWriter ==
    [][/\ op' \in ControlSteps => shadow' = shadow
       /\ op' \in RenderSteps => desired' = desired]_vars

\* Both threads have written their own state.
C8_Witness ==
    /\ ShadowStarted /\ AKTimelineIsStarted /\ _baseTime # baseTime
    /\ op \in ControlSteps /\ loopEnd # _loopEnd

\* C9: AKTimelineTimeAtTime changes no timeline state (desired state with
\* baseTime and its flags, shadow state, anchor, ring) and enqueues no
\* message.
C9_PureQuery ==
    [][op' = "timeAtTime" =>
         UNCHANGED <<desired, shadow, renderBook, ring, cpc, message>>]_vars

\* A query has filled in the sample time of a host-only base time.
C9_Witness ==
    /\ op = "timeAtTime" /\ SampleAndHostTimeValid(baseTime)
    /\ lastSent.baseTime.mFlags = kAudioTimeStampHostTimeValid
    /\ lastSent.baseTime.mHostTime = baseTime.mHostTime
    /\ SampleTimeValid(_baseTime) /\ ~SampleTimeValid(seek.t)

\* C1: a render call that reaches the drain step while the control thread
\* holds the queue lock does not wait: it skips the drain, leaving the
\* shadow state and the ring as they were, and the rest of the call then
\* runs to its end.
C1_RenderNeverWaits ==
    /\ [][(rpc = "idle" /\ rpc' # "idle" /\ messageQueueLock = "control")
          => /\ rpc' = "post"
             /\ op' = "renderSkip"
             /\ UNCHANGED <<shadow, messageQueue, underflow,
                            messageQueueLock>>]_vars
    /\ [](op = "renderSkip"
           => ENABLED (\E fcvt \in FloatConversions : RenderBody(fcvt)))
    /\ [][(op = "renderSkip" /\ op' = "renderBody") => rpc' = "idle"]_vars

\* The state C1 fails in: the call skipped its drain under the sender's
\* lock and is in the loop-splitting loop for good, the loop it took from an
\* earlier drain being empty.
C1_Witness ==
    /\ op = "renderBody" /\ rpc = "spin"
    /\ messageQueueLock = "control"
    /\ FillCount = QueueCapacity
    /\ _loopEnd = _loopStart /\ _loopEnd # 0

\* The skip itself: taken exactly when the sender holds the lock, and it
\* changes neither the shadow state nor the ring.
SkipLeavesStateAlone ==
    [][op' = "renderSkip"
       => /\ messageQueueLock = "control"
          /\ rpc' = "post"
          /\ UNCHANGED <<shadow, messageQueue, underflow,
                         messageQueueLock>>]_vars

\* The shadow state as a message.
ShadowMessage == Message(_loopStart, _loopEnd, _baseTime, _waitStart)

\* C10: when a render call has drained the ring and no send is in flight,
\* the ring is empty and the shadow state equals the most recently sent
\* message, however many messages were sent before.
C10_LatestStateWins ==
    (op = "renderUnlock" /\ cpc = "idle")
    => /\ messageQueue = <<>>
       /\ ShadowMessage = lastSent

\* The state C10 fails in: the sender saw a full ring, the render thread
\* drained it before the sender took the lock, and the sender then consumed
\* from the empty ring; its message is never delivered.
C10_Witness ==
    /\ op = "renderUnlock" /\ cpc = "idle"
    /\ nOps = MaxBurst
    /\ _loopStart = lastSent.loopStart - 1

\* C11: every render call terminates, for every shadow state the control
\* API can produce from valid arguments (a loop of duration 0 at a positive
\* start included), and each iteration of its loop-splitting loop renders
\* at least one frame.
C11_RenderTerminates ==
    RenderRan
    => /\ rpc = "idle"
       /\ \A i \in 1..Len(calls) : calls[i].frames >= 1

\* The state C11 fails in: setLoop(start > 0, 0) gave the render thread an
\* empty loop, and the call is in an iteration of 0 frames that changes
\* nothing.
C11_Witness ==
    /\ RenderRan /\ rpc = "spin"
    /\ loopBy = "setLoop"
    /\ _loopStart > 0 /\ _loopEnd = _loopStart
    /\ calls # <<>> /\ calls[Len(calls)].frames = 0

\* C12: a message that is waiting in the ring when a render call begins is
\* applied by that call or the next one: no message waits through two
\* render calls in a row that skip the drain.
C12_BoundedStaleness ==
    stale # NoMessage => skips <= 1

\* The state C12 fails in: two render calls in a row found the sender
\* holding the lock, and a message that was in the ring before the first of
\* them is still not applied after the second.
C12_Witness ==
    /\ op = "renderBody" /\ rpc = "idle"
    /\ skips = 2
    /\ stale # NoMessage /\ ShadowMessage # stale
    /\ \E i \in 1..Len(messageQueue) : messageQueue[i] = stale

\* A render call has reached the bookkeeping of lines 179-180.
RenderOccurred == SampleAndHostTimeValid(lastRenderTime)

\* C13: AKTimelineStart on an idle timeline starts it only after a render
\* call has occurred; once a render call has occurred, whatever its frame
\* count, the poll ends, and start returns with the timeline started and
\* waitStart at the last render timestamp advanced by the last render frame
\* count; while no render call has occurred the poll cannot end and the
\* timeline stays idle.
C13_StartAfterRender ==
    /\ []((cpc = "poll" /\ RenderOccurred) => ENABLED CtlStartPoll)
    /\ []((cpc = "poll" /\ ~RenderOccurred) => ~ENABLED CtlStartPoll)
    /\ [][(op' = "startPoll" /\ ~AKTimelineIsStarted)
          => /\ RenderOccurred
             /\ cpc' = "head"
             /\ AKTimelineIsStarted'
             /\ waitStart' = TimeStampOffset(lastRenderTime,
                                             lastRenderFrames)]_vars
    /\ [][(cpc = "poll" /\ ~RenderOccurred /\ ~AKTimelineIsStarted)
          => ~AKTimelineIsStarted']_vars

\* The state C13 fails in: a render call of 0 frames has occurred and start
\* is still polling, since lastRenderFrames is still 0.
C13_Witness ==
    /\ cpc = "poll" /\ op = "renderBody"
    /\ RenderOccurred /\ lastRenderFrames = 0
    /\ ~AKTimelineIsStarted

\* Loop bounds as the timeline's invariant wants them.
LoopOrdered(ls, le) == le # 0 => (le >= ls /\ ls >= 0)

\* C14: whatever setLoop, setState, setRenderState, startAtTime, seek and
\* stop calls were made with arguments that pass the assertions, an enabled
\* loop (loopEnd # 0) has loopEnd >= loopStart >= 0, in the desired state
\* and in the shadow state.
C14_LoopBoundsOrdered ==
    /\ LoopOrdered(loopStart, loopEnd)
    /\ LoopOrdered(_loopStart, _loopEnd)

\* The state C14 fails in: AKTimelineSetState was given a loop end below
\* the loop start, and the render thread has taken the bounds over.
C14_Witness ==
    /\ loopBy = "setState" /\ op = "renderUnlock"
    /\ loopEnd # 0 /\ loopEnd < loopStart
    /\ _loopEnd = loopEnd /\ _loopStart = loopStart

\* The underflow clamp of lines 251-254 triggers for (t, n).
ClampTriggers(t, n) ==
    HostTimeValid(t) /\ SamplesToTicks(n) < 0 /\ t.mHostTime < -SamplesToTicks(n)

Abs(x) == IF x < 0 THEN -x ELSE x

\* C15: for a timestamp t with both domains valid and an offset n,
\* TimeStampOffset(TimeStampOffset(t, n), -n) has t's sample time and a host
\* time within one tick of t's when neither application triggers the
\* underflow clamp; an application that triggers the clamp leaves the host
\* time as it was, and no host time goes below 0.
C15_OffsetRoundTrip ==
    /\ (probe.stage >= 1 /\ ClampTriggers(probe.t, probe.n))
       => probe.once.mHostTime = probe.t.mHostTime
    /\ (probe.stage = 2 /\ ClampTriggers(probe.once, -probe.n))
       => probe.twice.mHostTime = probe.once.mHostTime
    /\ probe.once.mHostTime >= 0 /\ probe.twice.mHostTime >= 0
    /\ (/\ probe.stage = 2
        /\ ~ClampTriggers(probe.t, probe.n)
        /\ ~ClampTriggers(probe.once, -probe.n))
       => /\ probe.twice.mSampleTime = probe.t.mSampleTime
          /\ Abs(probe.twice.mHostTime - probe.t.mHostTime) <= 1
          /\ probe.twice.mFlags = probe.t.mFlags

\* A round trip without the clamp, back in time by an offset whose tick
\* count is rounded and takes the host time to 0.
C15_Witness ==
    /\ probe.stage = 2
    /\ probe.n < 0
    /\ SamplesToTicks(probe.n) * TickDen # probe.n * TickNum
    /\ ~ClampTriggers(probe.t, probe.n)
    /\ ~ClampTriggers(probe.once, -probe.n)
    /\ probe.once.mHostTime = 0
    /\ probe.once.mSampleTime # probe.t.mSampleTime
    /\ probe.twice = probe.t

\* Exactly one domain of the timestamp is valid.
OneDomainValid(t) ==
    (SampleTimeValid(t) \/ HostTimeValid(t)) /\ ~SampleAndHostTimeValid(t)

\* C16: a render call that finds the shadow base time with exactly one
\* valid domain fills in the other by extrapolating against the latched
\* anchor, whatever device timestamp the call carries.
C16_BaseResolvedAgainstAnchor ==
    [][(op' = "renderBody" /\ OneDomainValid(_baseTime))
       => _baseTime' = extrapolateTime(_baseTime, anchorTime')]_vars

\* The state C16 fails in: the render call has resolved the base time
\* against its own timestamp, which is off the anchor's line, and the
\* result is not what the anchor gives.
C16_Witness ==
    /\ op = "renderBody"
    /\ SampleAndHostTimeValid(_baseTime)
    /\ anchorTime # inTimeStamp
    /\ OneDomainValid(lastSent.baseTime)
    /\ _baseTime = extrapolateTime(lastSent.baseTime, inTimeStamp)
    /\ _baseTime # extrapolateTime(lastSent.baseTime, anchorTime)

\* The loop formula for a position at or past loopEnd:
\* loopStart + fmod(position - loopStart, loopEnd - loopStart).
LoopFormula(w) ==
    IF _loopEnd # 0 /\ w >= _loopEnd
    THEN LET m == FModF(w - _loopStart, _loopEnd - _loopStart)
         IN  IF m.nan THEN NaN ELSE Num(_loopStart + m.v)
    ELSE Num(w)

\* C17: a render call of n frames on a started timeline whose
\* player-relative start p is below the threshold
\* w = max(waitStart - baseTime, 0) invokes no callback when w - p >= n;
\* otherwise its first callback is for position w, wrapped by the loop
\* formula when w >= loopEnd, and its callbacks total n - (w - p) frames.
C17_DeferredStartClipping ==
    (RenderRan /\ ShadowStarted /\ PlayerStart < WaitThreshold)
    => IF WaitThreshold - PlayerStart >= inNumberFrames
       THEN calls = <<>>
       ELSE /\ calls # <<>>
            /\ ~calls[1].nan /\ ~LoopFormula(WaitThreshold).nan
            /\ calls[1].mSampleTime = LoopFormula(WaitThreshold).v
            /\ SumFrames(calls) = inNumberFrames - (WaitThreshold - PlayerStart)

\* The state C17 fails in: the call clipped its first frames, began at the
\* threshold, which is the end of an empty loop, and found no position to
\* wrap to: the callback got a position that is not a number, or frames
\* that do not add up.
C17_Witness ==
    /\ RenderRan /\ ShadowStarted
    /\ PlayerStart < WaitThreshold
    /\ WaitThreshold - PlayerStart < inNumberFrames
    /\ WaitThreshold = _loopEnd /\ _loopEnd = _loopStart
    /\ calls # <<>>
    /\ (calls[1].nan \/ SumFrames(calls) # inNumberFrames - (WaitThreshold - PlayerStart))

\* C18: a render call that finds the shadow base time invalid in both
\* domains invokes no callback and still records lastRenderTime and
\* lastRenderFrames; and once stop() has returned and a later render call
\* has taken the lock, the render calls after it invoke no callback, as
\* long as the control thread makes no further call.
C18_NoRenderingWhileIdle ==
    /\ (RenderRan /\ ~ShadowStarted)
       => /\ calls = <<>>
          /\ lastRenderTime = inTimeStamp
          /\ lastRenderFrames = inNumberFrames
    /\ (RenderRan /\ quiet = MaxQuiet /\ lastSent.baseTime = AudioTimeZero)
       => calls = <<>>

\* The state C18 fails in: stop() has returned, its message was written
\* past a read position that the sender itself had moved beyond the write
\* position, two render calls have taken the lock since, and the second
\* has invoked the callback.
C18_Witness ==
    /\ RenderRan /\ quiet = MaxQuiet
    /\ nOps = MaxBurst + 1 /\ cpc = "idle"
    /\ lastSent.baseTime = AudioTimeZero
    /\ ~AKTimelineIsStarted
    /\ ShadowStarted /\ calls # <<>>

\* C19: in every interleaving of the sender and the drain, the sender
\* removes a message only from a ring that is full at that moment (never
\* from an empty ring, never while a slot is free), the ring never holds
\* more than QueueCapacity messages, and the two threads are never both in
\* their removal loops.
C19_EvictionSafe ==
    /\ [][op' \in {"evict", "evictEmpty"}
          => /\ messageQueue # <<>>
             /\ Len(messageQueue) = QueueCapacity]_vars
    /\ [](Len(messageQueue) <= QueueCapacity)
    /\ [](~(cpc = "evict" /\ rpc = "drain"))

\* The state C19 fails in: the sender found the ring full before it took
\* the lock, the render thread drained the ring meanwhile, and the sender
\* has consumed from the empty ring.
C19_Witness ==
    /\ op = "evictEmpty"
    /\ messageQueue = <<>>
    /\ messageQueueLock = "control"

\* The timestamps the timeline holds and the ones a query would read the
\* position at in this state.
StampsInUse ==
    {baseTime, waitStart, _baseTime, _waitStart, anchorTime,
     message.baseTime, message.waitStart, TimeAtTimeBase}
    \cup { m.baseTime : m \in {messageQueue[i] : i \in 1..Len(messageQueue)} }
    \cup { m.waitStart : m \in {messageQueue[i] : i \in 1..Len(messageQueue)} }
    \cup (IF AKTimelineIsStarted /\ SampleAndHostTimeValid(anchorTime)
          THEN { TimeAtTimeStamp(t) : t \in QueryStamps }
          ELSE {})

\* C20: with render timestamps valid in both domains, control timestamps
\* valid in a domain and setLoop arguments at or above 0, no call of
\* extrapolateTime fails its assertion, in any interleaving of control and
\* render operations: no timestamp is what a failed call leaves behind.
C20_AssertionsHold ==
    \A t \in StampsInUse : t.mFlags # AssertionFailed.mFlags

\* A render call has extrapolated a base time and a deferred start that
\* the control thread sent before the anchor was latched, and a query has
\* extrapolated its timestamp and the desired base time.
C20_Witness ==
    /\ op = "timeAtTime"
    /\ OneDomainValid(lastSent.baseTime) /\ OneDomainValid(lastSent.waitStart)
    /\ SampleAndHostTimeValid(_baseTime) /\ SampleAndHostTimeValid(_waitStart)
    /\ SampleAndHostTimeValid(baseTime)
    /\ \E t \in QueryStamps : ~SampleTimeValid(t)
                                /\ SampleAndHostTimeValid(TimeAtTimeStamp(t))

====
